---- MODULE Spec2Model ----
(***************************************************************************)
(* Model of the grant contract of contracts/grant_contracts/src/lib.rs:    *)
(* the instance storage (Grant and Milestone records under DataKey), the   *)
(* ledger clock, and one action per public entry point of GrantContract.   *)
(*                                                                         *)
(* An invocation that panics (panic_with_error!, unwrap_optimized on a     *)
(* missing key, a failed require_auth) is rolled back by the host: the     *)
(* storage is left as it was and only the outcome of the call is recorded. *)
(* The token contract is outside the repository: token_client.transfer is  *)
(* modelled as a request that the gateway accepts and that is recorded     *)
(* with the arguments the contract passes.                                 *)
(***************************************************************************)
EXTENDS Integers, Sequences, FiniteSets, TLC

\* ---------------------------------------------------------------- bounds
\* Largest value of the unsigned amount type (u128::MAX in the source).
MaxAmount == 2
\* Largest timestamp handed to compute_claimable_balance (u64::MAX in the
\* source), and the largest amount of the type of twice that width.
MaxTimestamp == 3
\* Cap of the history counter of withdrawn amounts.
MaxWithdrawn == 2
\* Cap of the history counter of amounts requested for the grantee.
MaxPaid == 3
MaxBalance == (MaxTimestamp + 1) * (MaxTimestamp + 1) - 1

\* ---------------------------------------------------------------- inputs
GrantIds == {"g1"}
MilestoneIds == {"m1", "m2"}
Addresses == {"alice", "bob", "eve"}
\* identities passed to create_grant as admin / grantee
Admins == {"alice", "eve"}
Grantees == {"bob"}
Tokens == {"tok"}
Descriptions == {"d"}
Amounts == 0..MaxAmount
\* values of env.ledger().timestamp()
Timestamps == {0, 1}
\* env.current_contract_address()
ContractAddress == "contract"
NoId == "-"

\* ---------------------------------------------------------------- types
GrantStatus == {"Proposed", "Active", "Paused", "Completed", "Cancelled"}

\* Option<T>: <<>> is None, <<v>> is Some(v)
None == <<>>
Some(v) == <<v>>
IsSome(o) == Len(o) = 1
Unwrap(o) == o[1]

VARIABLES
    grants,        \* DataKey::Grant(grant_id) -> Grant
    milestones,    \* DataKey::Milestone(grant_id, milestone_id) -> Milestone
    now,           \* env.ledger().timestamp()
    everApproved,  \* history (SpecHistory only): the (grant_id, milestone_id) pairs
                   \* approve_milestone has succeeded on
    last,          \* the last invocation: entry point, authorizer, keys, outcome, transfers
    withdrawn,     \* history (SpecLedger only): grant_id -> sum of the amounts
                   \* withdraw has succeeded with
    paid,          \* history (SpecPayments only): grant_id -> sum of the nominal
                   \* amounts of the transfers to the grantee requested so far
    pending,       \* SpecReentrant only: the invocation whose token transfer is in flight
    vest           \* SpecVesting only: arguments and result of compute_claimable_balance

vars == <<grants, milestones, now, everApproved, last, withdrawn, paid, pending, vest>>

\* ---------------------------------------------------------------- helpers
\* storage().instance().set(key, value)
Set(store, key, value) ==
    [k \in (DOMAIN store) \cup {key} |-> IF k = key THEN value ELSE store[k]]

\* u128::checked_add
checked_add_wrapping(a, b) == Some((a + b) % (MaxAmount + 1))
checked_add(a, b) == IF a + b > MaxAmount THEN None ELSE Some(a + b)

\* u128::checked_sub
checked_sub(a, b) == IF b > a THEN None ELSE Some(a - b)

\* u128::saturating_sub
saturating_sub(a, b) == IF b > a THEN 0 ELSE a - b

\* `amount as i128`: reinterpretation of the unsigned value in the signed
\* type of the same width
as_i128(amount) ==
    IF amount > MaxAmount \div 2 THEN amount - (MaxAmount + 1) ELSE amount

\* the ceiling test of approve_milestone
exceeds_total_never(new_released, total_amount) == FALSE
exceeds_total(new_released, total_amount) == new_released > total_amount

\* transfer_tokens: the request handed to token_client.transfer
transfer_tokens(token_address, from, to, amount) ==
    [token |-> token_address, from |-> from, to |-> to, amount |-> as_i128(amount)]

\* the record of an invocation; auth is the address whose require_auth the
\* invocation passed (NoId when it passed none)
Call(op, auth, g, m, result, transfers) ==
    [op |-> op, auth |-> auth, grant_id |-> g, milestone_id |-> m,
     result |-> result, transfers |-> transfers]

\* compute_claimable_balance has not been called
NoVesting == [total |-> 0, start |-> 0, now |-> 0, duration |-> 0, claimable |-> None]

\* a panicking invocation: nothing is written
Abort(op, auth, g, m, error) ==
    /\ last' = Call(op, auth, g, m, error, <<>>)
    /\ UNCHANGED <<grants, milestones, now>>

Init ==
    /\ grants = <<>>
    /\ milestones = <<>>
    /\ now = 0
    /\ everApproved = {}
    /\ last = Call("init", NoId, NoId, NoId, "Ok", <<>>)
    /\ withdrawn = [g \in GrantIds |-> 0]
    /\ paid = [g \in GrantIds |-> 0]
    /\ pending = None
    /\ vest = NoVesting

\* ---------------------------------------------------------------- entry points
create_grant(caller, grant_id, admin, grantee, total_amount, token_address) ==
    IF caller # admin
    THEN Abort("create_grant", NoId, grant_id, NoId, "AuthError")
    ELSE IF total_amount = 0
    THEN Abort("create_grant", caller, grant_id, NoId, "InvalidAmount")
    ELSE /\ grants' = Set(grants, grant_id,
                [admin |-> admin, grantee |-> grantee, total_amount |-> total_amount,
                 released_amount |-> 0, token_address |-> token_address,
                 created_at |-> now, status |-> "Proposed"])
         /\ last' = Call("create_grant", caller, grant_id, NoId, "Ok", <<>>)
         /\ UNCHANGED <<milestones, now>>

add_milestone_unchecked(caller, grant_id, milestone_id, amount, description) ==
    IF grant_id \notin DOMAIN grants
    THEN Abort("add_milestone", NoId, grant_id, milestone_id, "Panic")
    ELSE IF caller # grants[grant_id].admin
    THEN Abort("add_milestone", NoId, grant_id, milestone_id, "AuthError")
    ELSE /\ milestones' = Set(milestones, <<grant_id, milestone_id>>,
                [amount |-> amount, description |-> description,
                 approved |-> FALSE, approved_at |-> None])
         /\ last' = Call("add_milestone", caller, grant_id, milestone_id, "Ok", <<>>)
         /\ UNCHANGED <<grants, now>>

add_milestone(caller, grant_id, milestone_id, amount, description) ==
    IF grant_id \notin DOMAIN grants
    THEN Abort("add_milestone", NoId, grant_id, milestone_id, "Panic")
    ELSE IF caller # grants[grant_id].admin
    THEN Abort("add_milestone", NoId, grant_id, milestone_id, "AuthError")
    ELSE IF amount = 0
    THEN Abort("add_milestone", caller, grant_id, milestone_id, "InvalidAmount")
    ELSE /\ milestones' = Set(milestones, <<grant_id, milestone_id>>,
                [amount |-> amount, description |-> description,
                 approved |-> FALSE, approved_at |-> None])
         /\ last' = Call("add_milestone", caller, grant_id, milestone_id, "Ok", <<>>)
         /\ UNCHANGED <<grants, now>>

approve_milestone_gated(caller, grant_id, milestone_id) ==
    LET key == <<grant_id, milestone_id>> IN
    IF grant_id \notin DOMAIN grants
    THEN Abort("approve_milestone", NoId, grant_id, milestone_id, "Panic")
    ELSE IF caller # grants[grant_id].admin
    THEN Abort("approve_milestone", NoId, grant_id, milestone_id, "AuthError")
    ELSE IF key \notin DOMAIN milestones
    THEN Abort("approve_milestone", caller, grant_id, milestone_id, "Panic")
    ELSE LET grant == grants[grant_id]
             milestone == milestones[key]
             sum == checked_add(grant.released_amount, milestone.amount)
         IN
         IF milestone.approved
         THEN Abort("approve_milestone", caller, grant_id, milestone_id,
                    "AlreadyApproved")
         ELSE IF grant.status # "Active"
         THEN Abort("approve_milestone", caller, grant_id, milestone_id,
                    "InvalidStatus")
         ELSE IF ~IsSome(sum)
         THEN Abort("approve_milestone", caller, grant_id, milestone_id,
                    "ExceedsTotalAmount")
         ELSE IF exceeds_total(Unwrap(sum), grant.total_amount)
         THEN Abort("approve_milestone", caller, grant_id, milestone_id,
                    "ExceedsTotalAmount")
         ELSE LET new_released == Unwrap(sum) IN
              /\ milestones' = Set(milestones, key,
                     [milestone EXCEPT !.approved = TRUE, !.approved_at = Some(now)])
              /\ grants' = Set(grants, grant_id,
                     [grant EXCEPT !.released_amount = new_released,
                                   !.status = IF new_released = grant.total_amount
                                              THEN "Completed" ELSE @])
              /\ last' = Call("approve_milestone", caller, grant_id, milestone_id, "Ok",
                              <<transfer_tokens(grant.token_address, grant.admin,
                                                grant.grantee, milestone.amount)>>)
              /\ UNCHANGED now

approve_milestone(caller, grant_id, milestone_id) ==
    LET key == <<grant_id, milestone_id>> IN
    IF grant_id \notin DOMAIN grants
    THEN Abort("approve_milestone", NoId, grant_id, milestone_id, "Panic")
    ELSE IF caller # grants[grant_id].admin
    THEN Abort("approve_milestone", NoId, grant_id, milestone_id, "AuthError")
    ELSE IF key \notin DOMAIN milestones
    THEN Abort("approve_milestone", caller, grant_id, milestone_id, "Panic")
    ELSE LET grant == grants[grant_id]
             milestone == milestones[key]
             sum == checked_add(grant.released_amount, milestone.amount)
         IN
         IF milestone.approved
         THEN Abort("approve_milestone", caller, grant_id, milestone_id,
                    "AlreadyApproved")
         ELSE IF ~IsSome(sum)
         THEN Abort("approve_milestone", caller, grant_id, milestone_id,
                    "ExceedsTotalAmount")
         ELSE IF exceeds_total(Unwrap(sum), grant.total_amount)
         THEN Abort("approve_milestone", caller, grant_id, milestone_id,
                    "ExceedsTotalAmount")
         ELSE LET new_released == Unwrap(sum) IN
              /\ milestones' = Set(milestones, key,
                     [milestone EXCEPT !.approved = TRUE, !.approved_at = Some(now)])
              /\ grants' = Set(grants, grant_id,
                     [grant EXCEPT !.released_amount = new_released,
                                   !.status = IF new_released = grant.total_amount
                                              THEN "Completed" ELSE @])
              /\ last' = Call("approve_milestone", caller, grant_id, milestone_id, "Ok",
                              <<transfer_tokens(grant.token_address, grant.admin,
                                                grant.grantee, milestone.amount)>>)
              /\ UNCHANGED now

withdraw_strict(caller, grant_id, amount) ==
    IF grant_id \notin DOMAIN grants
    THEN Abort("withdraw", NoId, grant_id, NoId, "Panic")
    ELSE IF caller # grants[grant_id].grantee
    THEN Abort("withdraw", NoId, grant_id, NoId, "AuthError")
    ELSE IF amount = 0
    THEN Abort("withdraw", caller, grant_id, NoId, "InvalidAmount")
    ELSE IF amount >= grants[grant_id].released_amount
    THEN Abort("withdraw", caller, grant_id, NoId, "InvalidAmount")
    ELSE LET grant == grants[grant_id] IN
         /\ grants' = Set(grants, grant_id,
                [grant EXCEPT !.released_amount =
                                  Unwrap(checked_sub(grant.released_amount, amount))])
         /\ last' = Call("withdraw", caller, grant_id, NoId, "Ok",
                         <<transfer_tokens(grant.token_address, ContractAddress,
                                           grant.grantee, amount)>>)
         /\ UNCHANGED <<milestones, now>>

withdraw(caller, grant_id, amount) ==
    IF grant_id \notin DOMAIN grants
    THEN Abort("withdraw", NoId, grant_id, NoId, "Panic")
    ELSE IF caller # grants[grant_id].grantee
    THEN Abort("withdraw", NoId, grant_id, NoId, "AuthError")
    ELSE IF amount = 0
    THEN Abort("withdraw", caller, grant_id, NoId, "InvalidAmount")
    ELSE IF amount > grants[grant_id].released_amount
    THEN Abort("withdraw", caller, grant_id, NoId, "InvalidAmount")
    ELSE LET grant == grants[grant_id] IN
         /\ grants' = Set(grants, grant_id,
                [grant EXCEPT !.released_amount =
                                  Unwrap(checked_sub(grant.released_amount, amount))])
         /\ last' = Call("withdraw", caller, grant_id, NoId, "Ok",
                         <<transfer_tokens(grant.token_address, ContractAddress,
                                           grant.grantee, amount)>>)
         /\ UNCHANGED <<milestones, now>>

\* the common shape of the four lifecycle entry points: load, require_auth,
\* match on the status
Transition(op, caller, grant_id, sources, target) ==
    IF grant_id \notin DOMAIN grants
    THEN Abort(op, NoId, grant_id, NoId, "Panic")
    ELSE IF caller # grants[grant_id].admin
    THEN Abort(op, NoId, grant_id, NoId, "AuthError")
    ELSE IF grants[grant_id].status \notin sources
    THEN Abort(op, caller, grant_id, NoId, "InvalidStatus")
    ELSE /\ grants' = Set(grants, grant_id, [grants[grant_id] EXCEPT !.status = target])
         /\ last' = Call(op, caller, grant_id, NoId, "Ok", <<>>)
         /\ UNCHANGED <<milestones, now>>

activate_grant(caller, grant_id) ==
    Transition("activate_grant", caller, grant_id, {"Proposed"}, "Active")

pause_grant_resets(caller, grant_id) ==
    IF grant_id \notin DOMAIN grants
    THEN Abort("pause_grant", NoId, grant_id, NoId, "Panic")
    ELSE IF caller # grants[grant_id].admin
    THEN Abort("pause_grant", NoId, grant_id, NoId, "AuthError")
    ELSE IF grants[grant_id].status # "Active"
    THEN Abort("pause_grant", caller, grant_id, NoId, "InvalidStatus")
    ELSE /\ grants' = Set(grants, grant_id,
                [grants[grant_id] EXCEPT !.status = "Paused", !.released_amount = 0])
         /\ last' = Call("pause_grant", caller, grant_id, NoId, "Ok", <<>>)
         /\ UNCHANGED <<milestones, now>>

pause_grant(caller, grant_id) ==
    Transition("pause_grant", caller, grant_id, {"Active"}, "Paused")

resume_grant_completes(caller, grant_id) ==
    Transition("resume_grant", caller, grant_id, {"Paused"}, "Completed")

resume_grant(caller, grant_id) ==
    Transition("resume_grant", caller, grant_id, {"Paused"}, "Active")

cancel_grant_from_active(caller, grant_id) ==
    Transition("cancel_grant", caller, grant_id, {"Proposed", "Paused", "Active"}, "Cancelled")

cancel_grant(caller, grant_id) ==
    Transition("cancel_grant", caller, grant_id, {"Proposed", "Paused"}, "Cancelled")

\* get_grant: the stored record, or a panic when the key is missing
get_grant(grant_id) ==
    IF grant_id \in DOMAIN grants THEN Some(grants[grant_id]) ELSE None

\* get_remaining_amount, on a stored grant
get_remaining_amount_swapped(grant_id) ==
    saturating_sub(grants[grant_id].released_amount, grants[grant_id].total_amount)

get_remaining_amount(grant_id) ==
    saturating_sub(grants[grant_id].total_amount, grants[grant_id].released_amount)

\* the ledger closes and its timestamp advances
advance_ledger ==
    /\ \E t \in Timestamps : t > now /\ now' = t
    /\ last' = Call("advance_ledger", NoId, NoId, NoId, "Ok", <<>>)
    /\ UNCHANGED <<grants, milestones>>

\* ---------------------------------------------------------------- specification
CreateGrant ==
    \E c \in Addresses, g \in GrantIds, a \in Admins, e \in Grantees,
       t \in Amounts, k \in Tokens : create_grant(c, g, a, e, t, k)
AddMilestone ==
    \E c \in Addresses, g \in GrantIds, m \in MilestoneIds, a \in Amounts,
       d \in Descriptions : add_milestone(c, g, m, a, d)
ApproveMilestone ==
    \E c \in Addresses, g \in GrantIds, m \in MilestoneIds : approve_milestone(c, g, m)
Withdraw ==
    \E c \in Addresses, g \in GrantIds, a \in Amounts : withdraw(c, g, a)
ActivateGrant == \E c \in Addresses, g \in GrantIds : activate_grant(c, g)
PauseGrant == \E c \in Addresses, g \in GrantIds : pause_grant(c, g)
ResumeGrant == \E c \in Addresses, g \in GrantIds : resume_grant(c, g)
CancelGrant == \E c \in Addresses, g \in GrantIds : cancel_grant(c, g)

\* The entry points leave the history variable alone ...
Untracked(A) == A /\ UNCHANGED <<everApproved, withdrawn, paid, pending, vest>>

Next ==
    \/ Untracked(CreateGrant)
    \/ Untracked(AddMilestone)
    \/ Untracked(ApproveMilestone)
    \/ Untracked(Withdraw)
    \/ Untracked(ActivateGrant)
    \/ Untracked(PauseGrant)
    \/ Untracked(ResumeGrant)
    \/ Untracked(CancelGrant)
    \/ Untracked(advance_ledger)

Spec == Init /\ [][Next]_vars

\* ... and SpecHistory is the same program observed with the history
\* variable: every successful approve_milestone adds its key.
Tracked(A) ==
    /\ A
    /\ everApproved' =
          IF last'.op = "approve_milestone" /\ last'.result = "Ok"
          THEN everApproved \cup {<<last'.grant_id, last'.milestone_id>>}
          ELSE everApproved
    /\ UNCHANGED <<withdrawn, paid, pending, vest>>

NextHistory ==
    \/ Tracked(CreateGrant)
    \/ Tracked(AddMilestone)
    \/ Tracked(ApproveMilestone)
    \/ Tracked(Withdraw)
    \/ Tracked(ActivateGrant)
    \/ Tracked(PauseGrant)
    \/ Tracked(ResumeGrant)
    \/ Tracked(CancelGrant)
    \/ Tracked(advance_ledger)

SpecHistory == Init /\ [][NextHistory]_vars

\* SpecLedger is the same program observed with the sum of the amounts
\* withdrawn from each grant id; the counter is capped at MaxWithdrawn.
Ledgered(A) ==
    /\ A
    /\ withdrawn' =
          IF last'.op = "withdraw" /\ last'.result = "Ok"
          THEN [withdrawn EXCEPT ![last'.grant_id] =
                   @ + grants[last'.grant_id].released_amount
                     - grants'[last'.grant_id].released_amount]
          ELSE withdrawn
    /\ \A g \in GrantIds : withdrawn'[g] <= MaxWithdrawn
    /\ UNCHANGED <<everApproved, paid, pending, vest>>

NextLedger ==
    \/ Ledgered(CreateGrant)
    \/ Ledgered(AddMilestone)
    \/ Ledgered(ApproveMilestone)
    \/ Ledgered(Withdraw)
    \/ Ledgered(ActivateGrant)
    \/ Ledgered(PauseGrant)
    \/ Ledgered(ResumeGrant)
    \/ Ledgered(CancelGrant)
    \/ Ledgered(advance_ledger)

SpecLedger == Init /\ [][NextLedger]_vars

\* SpecPayments is the same program observed with the sum of the nominal
\* amounts of the transfers to the grantee it has requested for each grant
\* id: the milestone amount of a successful approve_milestone, which is the
\* rise of released_amount, and the amount of a successful withdraw, which
\* is its fall.  The counter is capped at MaxPaid.
Paying(A) ==
    /\ A
    /\ paid' =
          IF last'.op \in {"approve_milestone", "withdraw"} /\ last'.result = "Ok"
          THEN LET before == grants[last'.grant_id].released_amount
                   after == grants'[last'.grant_id].released_amount
               IN [paid EXCEPT ![last'.grant_id] =
                      @ + (IF after > before THEN after - before ELSE before - after)]
          ELSE paid
    /\ \A g \in GrantIds : paid'[g] <= MaxPaid
    /\ UNCHANGED <<everApproved, withdrawn, pending, vest>>

NextPayments ==
    \/ Paying(CreateGrant)
    \/ Paying(AddMilestone)
    \/ Paying(ApproveMilestone)
    \/ Paying(Withdraw)
    \/ Paying(ActivateGrant)
    \/ Paying(PauseGrant)
    \/ Paying(ResumeGrant)
    \/ Paying(CancelGrant)
    \/ Paying(advance_ledger)

SpecPayments == Init /\ [][NextPayments]_vars

\* The two read-only entry points as invocations: they write nothing and
\* panic on a missing grant.  SpecQueries is Spec with these invocations.
GetGrant ==
    \E g \in GrantIds :
        IF IsSome(get_grant(g))
        THEN /\ last' = Call("get_grant", NoId, g, NoId, "Ok", <<>>)
             /\ UNCHANGED <<grants, milestones, now>>
        ELSE Abort("get_grant", NoId, g, NoId, "Panic")

GetRemainingAmount ==
    \E g \in GrantIds :
        IF IsSome(get_grant(g))
        THEN /\ get_remaining_amount(g) \in Amounts
             /\ last' = Call("get_remaining_amount", NoId, g, NoId, "Ok", <<>>)
             /\ UNCHANGED <<grants, milestones, now>>
        ELSE Abort("get_remaining_amount", NoId, g, NoId, "Panic")

NextQueries ==
    \/ Next
    \/ Untracked(GetGrant)
    \/ Untracked(GetRemainingAmount)

SpecQueries == Init /\ [][NextQueries]_vars

\* ------------------------------------------------------------ re-entrancy
\* SpecReentrant runs approve_milestone and withdraw in two steps, split at
\* the call to the token contract: the part up to the call, and the return
\* from it.  While the call is in flight the token contract may invoke
\* approve_milestone and withdraw again; these nested invocations run to
\* their end.

\* the last statements of approve_milestone and of withdraw, in order
approve_milestone_tail_transfer_first == <<"transfer_tokens", "set">>
approve_milestone_tail == <<"set", "transfer_tokens">>
withdraw_tail == <<"set", "transfer_tokens">>

TailOf(op) == IF op = "approve_milestone" THEN approve_milestone_tail ELSE withdraw_tail

\* storage().instance().set of the local grant and milestone of a frame
Commit(f) ==
    /\ grants' = Set(grants, f.grant_id, f.grant)
    /\ milestones' = IF IsSome(f.milestone)
                     THEN Set(milestones, <<f.grant_id, f.milestone_id>>,
                              Unwrap(f.milestone))
                     ELSE milestones

\* the invocation has passed its checks and reached its last statements:
\* it runs those that precede the call to the token contract
Suspend(f) ==
    /\ pending' = Some(f)
    /\ IF TailOf(f.op)[1] = "set" THEN Commit(f) ELSE UNCHANGED <<grants, milestones>>
    /\ last' = Call(f.op, f.auth, f.grant_id, f.milestone_id, "InTransfer",
                    <<f.transfer>>)
    /\ UNCHANGED now

Fail(op, auth, g, m, error) == Abort(op, auth, g, m, error) /\ UNCHANGED pending

\* approve_milestone up to the call to the token contract
approve_milestone_enter(caller, grant_id, milestone_id) ==
    LET key == <<grant_id, milestone_id>> IN
    IF grant_id \notin DOMAIN grants
    THEN Fail("approve_milestone", NoId, grant_id, milestone_id, "Panic")
    ELSE IF caller # grants[grant_id].admin
    THEN Fail("approve_milestone", NoId, grant_id, milestone_id, "AuthError")
    ELSE IF key \notin DOMAIN milestones
    THEN Fail("approve_milestone", caller, grant_id, milestone_id, "Panic")
    ELSE LET grant == grants[grant_id]
             milestone == milestones[key]
             sum == checked_add(grant.released_amount, milestone.amount)
         IN
         IF milestone.approved
         THEN Fail("approve_milestone", caller, grant_id, milestone_id,
                   "AlreadyApproved")
         ELSE IF ~IsSome(sum)
         THEN Fail("approve_milestone", caller, grant_id, milestone_id,
                   "ExceedsTotalAmount")
         ELSE IF exceeds_total(Unwrap(sum), grant.total_amount)
         THEN Fail("approve_milestone", caller, grant_id, milestone_id,
                   "ExceedsTotalAmount")
         ELSE LET new_released == Unwrap(sum) IN
              Suspend([op |-> "approve_milestone", auth |-> caller,
                       grant_id |-> grant_id, milestone_id |-> milestone_id,
                       grant |-> [grant EXCEPT
                                     !.released_amount = new_released,
                                     !.status = IF new_released = grant.total_amount
                                                THEN "Completed" ELSE @],
                       milestone |-> Some([milestone EXCEPT !.approved = TRUE,
                                                            !.approved_at = Some(now)]),
                       transfer |-> transfer_tokens(grant.token_address, grant.admin,
                                                    grant.grantee, milestone.amount),
                       held |-> new_released, paid |-> 0])

\* withdraw up to the call to the token contract
withdraw_enter(caller, grant_id, amount) ==
    IF grant_id \notin DOMAIN grants
    THEN Fail("withdraw", NoId, grant_id, NoId, "Panic")
    ELSE IF caller # grants[grant_id].grantee
    THEN Fail("withdraw", NoId, grant_id, NoId, "AuthError")
    ELSE IF amount = 0
    THEN Fail("withdraw", caller, grant_id, NoId, "InvalidAmount")
    ELSE IF amount > grants[grant_id].released_amount
    THEN Fail("withdraw", caller, grant_id, NoId, "InvalidAmount")
    ELSE LET grant == grants[grant_id] IN
         Suspend([op |-> "withdraw", auth |-> caller,
                  grant_id |-> grant_id, milestone_id |-> NoId,
                  grant |-> [grant EXCEPT !.released_amount =
                                Unwrap(checked_sub(grant.released_amount, amount))],
                  milestone |-> None,
                  transfer |-> transfer_tokens(grant.token_address, ContractAddress,
                                               grant.grantee, amount),
                  held |-> grant.released_amount, paid |-> amount])

\* the call to the token contract returns: the invocation runs the
\* statements that follow it and ends
transfer_returns ==
    /\ IsSome(pending)
    /\ LET f == Unwrap(pending) IN
       /\ IF TailOf(f.op)[1] = "set" THEN UNCHANGED <<grants, milestones>> ELSE Commit(f)
       /\ last' = Call(f.op, f.auth, f.grant_id, f.milestone_id, "Ok", <<f.transfer>>)
    /\ pending' = None
    /\ UNCHANGED now

\* an entry point invoked while no call to the token contract is in flight
Outer(A) == pending = None /\ A /\ UNCHANGED <<everApproved, withdrawn, paid, vest>>

\* a whole invocation A made by the token contract during the call, with
\* the authorization A requires; the frame records what it released to
\* (held) and paid out of (paid) the grant
Nested(A) ==
    /\ IsSome(pending)
    /\ A
    /\ last'.result # "AuthError"
    /\ LET f == Unwrap(pending)
           before == grants[f.grant_id].released_amount
           after == grants'[f.grant_id].released_amount
       IN pending' = Some([f EXCEPT
              !.held = IF after > before THEN @ + (after - before) ELSE @,
              !.paid = IF after < before THEN @ + (before - after) ELSE @])
    /\ UNCHANGED <<everApproved, withdrawn, paid, vest>>

ApproveMilestoneEnter ==
    \E c \in Addresses, g \in GrantIds, m \in MilestoneIds :
        approve_milestone_enter(c, g, m)
WithdrawEnter ==
    \E c \in Addresses, g \in GrantIds, a \in Amounts : withdraw_enter(c, g, a)

NextReentrant ==
    \/ Outer(CreateGrant /\ UNCHANGED pending)
    \/ Outer(AddMilestone /\ UNCHANGED pending)
    \/ Outer(ApproveMilestoneEnter)
    \/ Outer(WithdrawEnter)
    \/ Outer(ActivateGrant /\ UNCHANGED pending)
    \/ Outer(PauseGrant /\ UNCHANGED pending)
    \/ Outer(ResumeGrant /\ UNCHANGED pending)
    \/ Outer(CancelGrant /\ UNCHANGED pending)
    \/ Outer(advance_ledger /\ UNCHANGED pending)
    \/ Nested(ApproveMilestone)
    \/ Nested(Withdraw)
    \/ transfer_returns /\ UNCHANGED <<everApproved, withdrawn, paid, vest>>

SpecReentrant == Init /\ [][NextReentrant]_vars

\* ------------------------------------------------ grant math (mod grant)
\* u128::checked_mul
checked_mul(a, b) == IF a * b > MaxBalance THEN None ELSE Some(a * b)

\* the outcome of `part1 + part2` when the sum does not fit u128: a panic
\* in a build with overflow checks, a wrapped value in one without
Overflowed == -1
add_u128(a, b) == IF a + b > MaxBalance THEN Overflowed ELSE a + b

compute_claimable_balance_late_cliff(total, start, now_, duration) ==
    IF duration = 0 THEN (IF now_ > start THEN total ELSE 0)
    ELSE IF now_ <= start THEN 0
    ELSE LET elapsed == saturating_sub(now_, start) IN
         IF elapsed >= duration THEN total
         ELSE LET dur == duration
                  el == elapsed
                  whole == total \div dur
                  rem == total % dur
                  part1 == checked_mul(whole, el)
                  part2 == checked_mul(rem, el)
              IN IF ~IsSome(part1) THEN total
                 ELSE IF ~IsSome(part2) THEN total
                 ELSE add_u128(Unwrap(part1), Unwrap(part2) \div dur)

compute_claimable_balance_whole_only(total, start, now_, duration) ==
    IF duration = 0 THEN (IF now_ >= start THEN total ELSE 0)
    ELSE IF now_ <= start THEN 0
    ELSE LET elapsed == saturating_sub(now_, start) IN
         IF elapsed >= duration THEN total
         ELSE LET dur == duration
                  el == elapsed
                  whole == total \div dur
                  part1 == checked_mul(whole, el)
              IN IF ~IsSome(part1) THEN total
                 ELSE Unwrap(part1)

compute_claimable_balance_naive(total, start, now_, duration) ==
    IF duration = 0 THEN (IF now_ >= start THEN total ELSE 0)
    ELSE IF now_ <= start THEN 0
    ELSE LET elapsed == saturating_sub(now_, start) IN
         IF elapsed >= duration THEN total
         ELSE IF total * elapsed > MaxBalance THEN Overflowed
         ELSE (total * elapsed) \div duration

\* grant::compute_claimable_balance(total, start, now, duration)
compute_claimable_balance(total, start, now_, duration) ==
    IF duration = 0 THEN (IF now_ >= start THEN total ELSE 0)
    ELSE IF now_ <= start THEN 0
    ELSE LET elapsed == saturating_sub(now_, start) IN
         IF elapsed >= duration THEN total
         ELSE LET dur == duration
                  el == elapsed
                  whole == total \div dur
                  rem == total % dur
                  part1 == checked_mul(whole, el)
                  part2 == checked_mul(rem, el)
              IN IF ~IsSome(part1) THEN total
                 ELSE IF ~IsSome(part2) THEN total
                 ELSE add_u128(Unwrap(part1), Unwrap(part2) \div dur)

\* the arguments: any u128 total and any three u64 timestamps
Balances == 0..MaxBalance
VestingTimes == 0..MaxTimestamp

InitVesting ==
    /\ grants = <<>>
    /\ milestones = <<>>
    /\ now = 0
    /\ everApproved = {}
    /\ last = Call("init", NoId, NoId, NoId, "Ok", <<>>)
    /\ withdrawn = [g \in GrantIds |-> 0]
    /\ paid = [g \in GrantIds |-> 0]
    /\ pending = None
    /\ vest \in [total : Balances, start : VestingTimes, now : VestingTimes,
                 duration : VestingTimes, claimable : {None}]

ComputeClaimableBalance ==
    /\ ~IsSome(vest.claimable)
    /\ vest' = [vest EXCEPT !.claimable =
                   Some(compute_claimable_balance(vest.total, vest.start,
                                                  vest.now, vest.duration))]
    /\ UNCHANGED <<grants, milestones, now, everApproved, last, withdrawn, paid, pending>>

NextVesting == ComputeClaimableBalance

SpecVesting == InitVesting /\ [][NextVesting]_vars

TypeOK ==
    /\ DOMAIN grants \subseteq GrantIds
    /\ \A g \in DOMAIN grants :
          /\ grants[g].admin \in Addresses
          /\ grants[g].grantee \in Addresses
          /\ grants[g].total_amount \in Amounts
          /\ grants[g].released_amount \in Amounts
          /\ grants[g].status \in GrantStatus
          /\ grants[g].created_at \in Timestamps
    /\ DOMAIN milestones \subseteq GrantIds \X MilestoneIds
    /\ \A k \in DOMAIN milestones :
          /\ milestones[k].amount \in Amounts
          /\ milestones[k].approved \in BOOLEAN
    /\ now \in Timestamps

\* ---------------------------------------------------------------- properties
\* the amounts of the stored milestones under the given keys
RECURSIVE SumAmounts(_)
SumAmounts(keys) ==
    IF keys = {} THEN 0
    ELSE LET k == CHOOSE x \in keys : TRUE
         IN milestones[k].amount + SumAmounts(keys \ {k})

\* the stored milestones of a grant whose approved flag is set
ApprovedKeys(g) == {k \in DOMAIN milestones : k[1] = g /\ milestones[k].approved}

\* the step is an invocation of op on grant g that passed require_auth of the
\* admin stored for g before the step
ByAdmin(op, g) ==
    /\ g \in DOMAIN grants
    /\ last'.op = op
    /\ last'.grant_id = g
    /\ last'.auth = grants[g].admin

\* C1: every stored grant has 0 <= released_amount <= total_amount.
ReleasedWithinTotal ==
    \A g \in DOMAIN grants :
        /\ 0 <= grants[g].released_amount
        /\ grants[g].released_amount <= grants[g].total_amount

\* an approval has brought a grant exactly to its ceiling
ReleasedWithinTotalWitness ==
    \E g \in DOMAIN grants :
        /\ last.op = "approve_milestone" /\ last.result = "Ok" /\ last.grant_id = g
        /\ grants[g].released_amount = grants[g].total_amount
        /\ grants[g].total_amount > 1

\* C2 (as claimed): once approve_milestone has succeeded on (grant id,
\* milestone id), every later approve_milestone on that pair by the admin
\* fails with AlreadyApproved and does not increase released_amount.
RepeatedApprovalRejected ==
    [][\A g \in GrantIds, m \in MilestoneIds :
          (<<g, m>> \in everApproved /\ ByAdmin("approve_milestone", g)
               /\ last'.milestone_id = m)
          => /\ last'.result = "AlreadyApproved"
             /\ grants'[g].released_amount <= grants[g].released_amount]_vars

\* C3: approve_milestone by the admin on an unapproved milestone with
\* released_amount + amount > total_amount (overflow of the amount type
\* included) fails with ExceedsTotalAmount, writes nothing and transfers nothing.
ApprovalOverCeilingRejected ==
    [][\A g \in GrantIds, m \in MilestoneIds :
          (/\ ByAdmin("approve_milestone", g)
           /\ last'.milestone_id = m
           /\ <<g, m>> \in DOMAIN milestones
           /\ ~milestones[<<g, m>>].approved
           /\ grants[g].released_amount + milestones[<<g, m>>].amount
                  > grants[g].total_amount)
          => /\ last'.result = "ExceedsTotalAmount"
             /\ grants' = grants
             /\ milestones' = milestones
             /\ last'.transfers = <<>>]_vars

\* an approval was rejected because the addition overflowed the amount type
ApprovalOverCeilingWitness ==
    \E g \in DOMAIN grants, m \in MilestoneIds :
        /\ last.op = "approve_milestone" /\ last.result = "ExceedsTotalAmount"
        /\ last.grant_id = g /\ last.milestone_id = m
        /\ ~milestones[<<g, m>>].approved
        /\ grants[g].released_amount + milestones[<<g, m>>].amount > MaxAmount

\* C4 (as claimed): whenever the approved milestones of a grant have amounts
\* summing to total_amount, the grant is Completed and get_remaining_amount is 0.
SumLaw ==
    \A g \in DOMAIN grants :
        SumAmounts(ApprovedKeys(g)) = grants[g].total_amount
        => /\ grants[g].status = "Completed"
           /\ get_remaining_amount(g) = 0

\* C5 (as claimed): a grant that is Completed or Cancelled keeps its status
\* in every step.
TerminalStatusKept ==
    [][\A g \in DOMAIN grants :
          grants[g].status \in {"Completed", "Cancelled"}
          => grants'[g].status = grants[g].status]_vars

\* one row of the lifecycle table, for a step that passed the admin's authorization
LifecycleRow(op, g, sources, target) ==
    ByAdmin(op, g)
    => IF grants[g].status \in sources
       THEN /\ last'.result = "Ok"
            /\ grants' = [grants EXCEPT ![g].status = target]
       ELSE /\ last'.result = "InvalidStatus"
            /\ grants' = grants

\* C6: a lifecycle call that passed the admin's authorization succeeds exactly
\* from its source status and sets the target status; from any other status
\* it fails with InvalidStatus and the stored grant is unchanged.
LifecycleTable ==
    [][\A g \in GrantIds :
          /\ LifecycleRow("activate_grant", g, {"Proposed"}, "Active")
          /\ LifecycleRow("pause_grant", g, {"Active"}, "Paused")
          /\ LifecycleRow("resume_grant", g, {"Paused"}, "Active")
          /\ LifecycleRow("cancel_grant", g, {"Proposed", "Paused"}, "Cancelled")]_vars

\* cancel_grant was refused on an Active grant
LifecycleTableWitness ==
    \E g \in DOMAIN grants :
        /\ last.op = "cancel_grant" /\ last.result = "InvalidStatus"
        /\ last.grant_id = g /\ last.auth = grants[g].admin
        /\ grants[g].status = "Active"

\* C7 (as claimed): a stored milestone whose approved flag is set keeps it
\* set in every step.
ApprovedNeverUnset ==
    [][\A k \in DOMAIN milestones :
          milestones[k].approved
          => k \in DOMAIN milestones' /\ milestones'[k].approved]_vars

\* C8 (as claimed): admin, grantee, token_address and total_amount of a stored
\* grant are the same after every step.
GrantIdentityImmutable ==
    [][\A g \in DOMAIN grants :
          /\ g \in DOMAIN grants'
          /\ grants'[g].admin = grants[g].admin
          /\ grants'[g].grantee = grants[g].grantee
          /\ grants'[g].token_address = grants[g].token_address
          /\ grants'[g].total_amount = grants[g].total_amount]_vars

\* the milestone records stored under a grant
MilestonesOf(store, g) == [k \in {x \in DOMAIN store : x[1] = g} |-> store[k]]

\* the entry points that require the authorization of the stored admin
AdminOps ==
    {"activate_grant", "pause_grant", "resume_grant", "cancel_grant",
     "add_milestone", "approve_milestone"}

\* C9 (as claimed): a step that changes a stored grant or one of its
\* milestones passed the authorization of the grant's stored admin (lifecycle,
\* add_milestone, approve_milestone) or of its stored grantee (withdraw).
OnlyAdminOrGranteeWrites ==
    [][\A g \in DOMAIN grants :
          (grants'[g] # grants[g] \/ MilestonesOf(milestones', g) # MilestonesOf(milestones, g))
          => \/ last'.op \in AdminOps /\ last'.auth = grants[g].admin
             \/ last'.op = "withdraw" /\ last'.auth = grants[g].grantee]_vars

\* C10: withdraw by the grantee fails with InvalidAmount and writes nothing
\* when amount = 0 or amount > released_amount; otherwise it succeeds,
\* lowers released_amount by exactly amount and changes nothing else.
WithdrawExact ==
    [][\A g \in DOMAIN grants :
          (last'.op = "withdraw" /\ last'.grant_id = g /\ last'.auth = grants[g].grantee)
          => \A a \in Amounts :
                withdraw(grants[g].grantee, g, a)
                => IF a = 0 \/ a > grants[g].released_amount
                   THEN /\ last'.result = "InvalidAmount"
                        /\ grants' = grants
                        /\ milestones' = milestones
                        /\ last'.transfers = <<>>
                   ELSE /\ last'.result = "Ok"
                        /\ grants' = [grants EXCEPT
                               ![g].released_amount = grants[g].released_amount - a]
                        /\ milestones' = milestones]_vars

\* the grantee has withdrawn the whole released amount
WithdrawExactWitness ==
    \E g \in DOMAIN grants :
        /\ last.op = "withdraw" /\ last.result = "Ok"
        /\ last.grant_id = g /\ last.auth = grants[g].grantee
        /\ grants[g].released_amount = 0
        /\ ApprovedKeys(g) # {}

\* C12: for every stored grant, get_remaining_amount + released_amount equals
\* total_amount, whatever the clock and the pause/resume history.
RemainingPlusReleased ==
    \A g \in DOMAIN grants :
        get_remaining_amount(g) + grants[g].released_amount = grants[g].total_amount

\* a grant with a partly released total has just been resumed, after the
\* clock advanced past its creation and its approval
RemainingPlusReleasedWitness ==
    \E g \in DOMAIN grants, m \in MilestoneIds :
        /\ last.op = "resume_grant" /\ last.result = "Ok" /\ last.grant_id = g
        /\ now > grants[g].created_at
        /\ <<g, m>> \in ApprovedKeys(g)
        /\ milestones[<<g, m>>].approved_at = Some(grants[g].created_at)
        /\ 0 < grants[g].released_amount
        /\ grants[g].released_amount < grants[g].total_amount

\* the four lifecycle entry points
LifecycleOps == {"activate_grant", "pause_grant", "resume_grant", "cancel_grant"}

\* C16: a step after which a grant is Completed, and before which it was not,
\* is a successful approve_milestone on that grant that leaves released_amount
\* equal to total_amount; no other entry point sets Completed.
CompletedOnlyByApproval ==
    [][\A g \in DOMAIN grants' :
          (/\ grants'[g].status = "Completed"
           /\ (g \notin DOMAIN grants \/ grants[g].status # "Completed"))
          => /\ last'.op = "approve_milestone"
             /\ last'.result = "Ok"
             /\ last'.grant_id = g
             /\ grants'[g].released_amount = grants'[g].total_amount]_vars

\* the approval of the second milestone of a grant has completed it
CompletedOnlyByApprovalWitness ==
    \E g \in DOMAIN grants :
        /\ last.op = "approve_milestone" /\ last.result = "Ok" /\ last.grant_id = g
        /\ grants[g].status = "Completed"
        /\ Cardinality(ApprovedKeys(g)) = 2

\* C18: a lifecycle call, successful or not, leaves total_amount,
\* released_amount, admin, grantee, token_address and created_at of the grant
\* and every milestone record unchanged.
LifecycleFrame ==
    [][last'.op \in LifecycleOps
          => /\ milestones' = milestones
             /\ DOMAIN grants' = DOMAIN grants
             /\ \A g \in DOMAIN grants :
                   /\ grants'[g].total_amount = grants[g].total_amount
                   /\ grants'[g].released_amount = grants[g].released_amount
                   /\ grants'[g].admin = grants[g].admin
                   /\ grants'[g].grantee = grants[g].grantee
                   /\ grants'[g].token_address = grants[g].token_address
                   /\ grants'[g].created_at = grants[g].created_at]_vars

\* a grant with a released amount and a stored milestone has just been paused
LifecycleFrameWitness ==
    \E g \in DOMAIN grants :
        /\ last.op = "pause_grant" /\ last.result = "Ok" /\ last.grant_id = g
        /\ grants[g].status = "Paused"
        /\ grants[g].released_amount > 0
        /\ ApprovedKeys(g) # {}

\* C19: the outcome of approve_milestone by the admin on an unapproved
\* milestone is decided by released_amount, the milestone amount and
\* total_amount alone, whatever the status: it succeeds and adds the amount
\* when released_amount + amount <= total_amount, and fails with
\* ExceedsTotalAmount leaving released_amount otherwise.
ApprovalIgnoresStatus ==
    [][\A g \in GrantIds, m \in MilestoneIds :
          (/\ ByAdmin("approve_milestone", g)
           /\ last'.milestone_id = m
           /\ <<g, m>> \in DOMAIN milestones
           /\ ~milestones[<<g, m>>].approved)
          => IF grants[g].released_amount + milestones[<<g, m>>].amount
                    <= grants[g].total_amount
             THEN /\ last'.result = "Ok"
                  /\ grants'[g].released_amount =
                         grants[g].released_amount + milestones[<<g, m>>].amount
             ELSE /\ last'.result = "ExceedsTotalAmount"
                  /\ grants'[g].released_amount = grants[g].released_amount]_vars

\* a milestone has been approved on a grant that is still Proposed
ApprovalIgnoresStatusWitness ==
    \E g \in DOMAIN grants :
        /\ last.op = "approve_milestone" /\ last.result = "Ok" /\ last.grant_id = g
        /\ grants[g].status = "Proposed"
        /\ grants[g].released_amount > 0

\* C20: every step that changes the store (which is empty initially) leaves
\* every stored grant with total_amount > 0 and every stored milestone with
\* amount > 0; an authorised create_grant with total_amount 0 and an
\* add_milestone by the admin with amount 0 fail with InvalidAmount and store
\* nothing, and add_milestone by the admin stores any non-zero amount,
\* whatever the other milestones and total_amount are.
StoredAmountsPositive ==
    [][/\ \/ (grants' = grants /\ milestones' = milestones)
          \/ /\ \A g \in DOMAIN grants' : grants'[g].total_amount > 0
             /\ \A k \in DOMAIN milestones' : milestones'[k].amount > 0
       /\ (last'.op = "create_grant" /\ last'.auth # NoId)
             => \A g \in GrantIds, e \in Grantees, k \in Tokens :
                   create_grant(last'.auth, g, last'.auth, e, 0, k)
                   => /\ last'.result = "InvalidAmount"
                      /\ grants' = grants
                      /\ milestones' = milestones
       /\ last'.op = "add_milestone"
             => \A g \in DOMAIN grants :
                   ByAdmin("add_milestone", g)
                   => \A a \in Amounts, d \in Descriptions :
                         add_milestone(grants[g].admin, g, last'.milestone_id, a, d)
                         => IF a = 0
                            THEN /\ last'.result = "InvalidAmount"
                                 /\ grants' = grants
                                 /\ milestones' = milestones
                            ELSE /\ last'.result = "Ok"
                                 /\ <<g, last'.milestone_id>> \in DOMAIN milestones'
                                 /\ milestones'[<<g, last'.milestone_id>>].amount = a]_vars

\* a milestone has just been added that takes the sum of the grant's
\* milestone amounts above total_amount
StoredAmountsPositiveWitness ==
    \E g \in DOMAIN grants :
        /\ last.op = "add_milestone" /\ last.result = "Ok" /\ last.grant_id = g
        /\ SumAmounts(DOMAIN MilestonesOf(milestones, g)) > grants[g].total_amount

\* the entry points that take a grant id and load the grant
GrantOps ==
    {"add_milestone", "approve_milestone", "withdraw", "get_grant",
     "get_remaining_amount"} \cup LifecycleOps

\* C11: an invocation of an entry point that loads a grant, on a grant id
\* with no stored grant, fails with GrantNotFound; approve_milestone by the
\* admin on a stored grant and a milestone id with no stored milestone fails
\* with MilestoneNotFound; neither changes the stores.
MissingRecordsReported ==
    [][/\ (last'.op \in GrantOps /\ last'.grant_id \notin DOMAIN grants)
             => /\ last'.result = "GrantNotFound"
                /\ grants' = grants
                /\ milestones' = milestones
          /\ \A g \in DOMAIN grants :
                (/\ ByAdmin("approve_milestone", g)
                 /\ <<g, last'.milestone_id>> \notin DOMAIN milestones)
                => /\ last'.result = "MilestoneNotFound"
                   /\ grants' = grants
                   /\ milestones' = milestones]_vars

\* C14: the result of compute_claimable_balance lies in 0..total; it is 0
\* when duration > 0 and now <= start, total when now > start and
\* now - start >= duration, and for duration = 0 it is total when
\* now >= start and 0 otherwise.
ClaimableClamped ==
    IsSome(vest.claimable)
    => LET r == Unwrap(vest.claimable) IN
       /\ r \in 0..vest.total
       /\ (vest.duration > 0 /\ vest.now <= vest.start) => r = 0
       /\ (vest.now > vest.start /\ vest.now - vest.start >= vest.duration)
             => r = vest.total
       /\ vest.duration = 0
             => r = (IF vest.now >= vest.start THEN vest.total ELSE 0)

\* the balance of a grant of duration 0 has been computed at its start
ClaimableClampedWitness ==
    /\ IsSome(vest.claimable)
    /\ vest.duration = 0 /\ vest.now = vest.start /\ vest.start > 0
    /\ vest.total = MaxBalance
    /\ Unwrap(vest.claimable) = vest.total

\* C15: for duration > 0 and start < now < start + duration the result is
\* floor(total * (now - start) / duration) computed without overflow.
ClaimableIsFloor ==
    (/\ IsSome(vest.claimable)
     /\ vest.duration > 0
     /\ vest.start < vest.now
     /\ vest.now < vest.start + vest.duration)
    => Unwrap(vest.claimable) =
           (vest.total * (vest.now - vest.start)) \div vest.duration

\* a balance strictly inside the vesting period has been computed in which
\* both the whole part and the remainder part contribute
ClaimableIsFloorWitness ==
    /\ IsSome(vest.claimable)
    /\ vest.duration > 0 /\ vest.start < vest.now
    /\ vest.now < vest.start + vest.duration
    /\ vest.total > vest.duration
    /\ Unwrap(vest.claimable) >
           (vest.total \div vest.duration) * (vest.now - vest.start)

\* C17: the released_amount of every stored grant equals the sum of the
\* amounts of its approved milestones minus the amounts withdrawn from it.
ReleasedIsApprovedMinusWithdrawn ==
    \A g \in DOMAIN grants :
        grants[g].released_amount = SumAmounts(ApprovedKeys(g)) - withdrawn[g]

ClaimableNeverOverflows ==
    IsSome(vest.claimable)
    => /\ Unwrap(vest.claimable) # Overflowed
       /\ (/\ vest.duration > 0
           /\ vest.start < vest.now
           /\ vest.now - vest.start < vest.duration)
          => LET el == vest.now - vest.start
                 whole == vest.total \div vest.duration
                 rem == vest.total % vest.duration
             IN \/ /\ whole * el <= MaxBalance
                   /\ rem * el <= MaxBalance
                   /\ whole * el + (rem * el) \div vest.duration <= MaxBalance
                \/ Unwrap(vest.claimable) = vest.total

\* a balance has been computed inside the vesting period for the largest
\* total, where the product total * elapsed does not fit the amount type
ClaimableNeverOverflowsWitness ==
    /\ IsSome(vest.claimable)
    /\ vest.duration > 0 /\ vest.start < vest.now
    /\ vest.now - vest.start < vest.duration
    /\ vest.total = MaxBalance
    /\ vest.total * (vest.now - vest.start) > MaxBalance
    /\ Unwrap(vest.claimable) \in 1..(vest.total - 1)

\* C23: the amount of every transfer requested by a successful
\* approve_milestone or withdraw is non-negative and equals the nominal
\* unsigned amount: the milestone amount added to released_amount,
\* respectively the amount taken from it.
TransferAmountIsNominal ==
    [][\A g \in DOMAIN grants :
          (/\ last'.op \in {"approve_milestone", "withdraw"}
           /\ last'.result = "Ok"
           /\ last'.grant_id = g)
          => /\ Len(last'.transfers) = 1
             /\ last'.transfers[1].amount >= 0
             /\ last'.transfers[1].amount =
                   IF last'.op = "approve_milestone"
                   THEN milestones[<<g, last'.milestone_id>>].amount
                   ELSE grants[g].released_amount - grants'[g].released_amount]_vars

\* C22: for every stored grant the sum of the nominal amounts the contract
\* has asked the token contract to transfer to the grantee, on approvals and
\* on withdrawals, is at most total_amount.
PaidWithinTotal ==
    \A g \in DOMAIN grants : paid[g] <= grants[g].total_amount
====
